---- MODULE Spec2Model ----
(***************************************************************************)
(* RAWG API client (src/rawg_client.py): the retry/backoff wrapper, the    *)
(* rate limiter, the request executor and the st.cache_data facade         *)
(* operations, with one or two caller threads sharing one RAWGClient.      *)
(*                                                                         *)
(* Time is counted in tenths of a second and kept relative to the present: *)
(* time.time() is 0, a stored timestamp is 0 or negative (so many tenths   *)
(* ago) and a deadline is positive.  When time passes by d every stored    *)
(* time is lowered by d; a timestamp stops ageing once it is older than    *)
(* anything the code compares it with.                                     *)
(***************************************************************************)
EXTENDS Integers, Sequences, FiniteSets, TLC

VARIABLES
    pop,                \* get_popular_games: the wall clock's date and the calls made
    ach,                \* Advanced Search page: the achievements being normalized
    chat,               \* the GroqChatManager and st.session_state's chat history
    page,               \* Browse Games page: st.session_state.page and the last fetch
    favorites,          \* st.session_state's favorites list
    client,             \* what RAWGClient(...) left: the client's fields, or the error
    env,                \* what the remote side and the installed requests can do
    bm,                 \* the last best-match lookup: query, candidates, result
    active,             \* the caller threads that share the client
    max_retries,        \* config.max_retries, bound into retry_on_failure
    api_key,            \* RAWGClient.api_key
    last_request_time,  \* RAWGClient.last_request_time
    selfHashable,       \* whether st.cache_data can hash a RAWGClient argument
    cache,              \* st.cache_data entries: [key, value, at]
    th,                 \* per thread: position and locals of its call, with the
                        \* request it sent last, the records its last step logged
                        \* and the failure classes its attempts have met
    ncalls,             \* calls started so far (bounded by MaxCalls)
    paused,             \* the callers already paused since the last call started
    lastStart,          \* start time of the last network call
    lastGap             \* time between the starts of the last two network calls

\* The state of the pages and helpers around the client, and the client's own
uiVars == <<pop, ach, chat, page, favorites>>

clientVars == <<client, env, active, max_retries, api_key, last_request_time,
                selfHashable, cache, th, ncalls, paused, lastStart, lastGap>>

vars == <<pop, ach, chat, page, favorites, client, env, bm, active, max_retries, api_key,
          last_request_time, selfHashable, cache, th, ncalls, paused, lastStart, lastGap>>

----------------------------------------------------------------------------
\* Program constants

MinRequestInterval == 1      \* 0.1 s
RetryDelay == 10             \* 1.0 s
ApiTimeout == 300            \* 30 s
CacheTtl == 36000            \* 3600 s
MaxRetriesDefault == 3
DefaultPageSize == 20        \* config.default_page_size
MaxPageSize == 40            \* config.max_page_size
LoggerLevel == "INFO"

\* Bounds of the model
MaxCalls == 2                \* calls made on the client, over all threads
MaxCandidates == 2           \* games in the candidate list of a best-match lookup
MaxTicks == 1                \* midnights passed by the wall clock
MaxAchievements == 2         \* achievements in the list a page run normalizes
MaxPage == 3                 \* pages of results the Browse Games page walks
MaxMessages == 4             \* messages the chat history holds before Clear Chat

Threads == {1, 2}
ApiKeys == {"k1"}
Bodies == {"b1"}
FastDurations == {0, 1}      \* a response or a refused connection: under or over 0.1 s
PauseDurations == {1, CacheTtl}

\* The caller's query parameters: a set of <<name, value>> pairs.
ParamChoices == { {}, {<<"key", "caller">>} }
GameIds == { {<<"id", "1">>} }

BaseUrl == <<"https://api.rawg.io", "api">>

Max(a, b) == IF a >= b THEN a ELSE b

API_ENDPOINTS(name, arg) ==
    CASE name = "games"       -> [absolute |-> TRUE, path |-> <<"games">>]
      [] name = "game_detail" -> [absolute |-> TRUE,
                                  path |-> <<"games", (CHOOSE p \in arg : p[1] = "id")[2]>>]
      [] name = "developers"  -> [absolute |-> TRUE, path |-> <<"developers">>]

\* urllib.parse.urljoin: an absolute path replaces the base's path, a relative
\* one replaces its last segment.
urljoin(base, endpoint) ==
    IF endpoint.absolute
    THEN <<Head(base)>> \o endpoint.path
    ELSE SubSeq(base, 1, Len(base) - 1) \o endpoint.path

Min(S) == CHOOSE x \in S : \A y \in S : x <= y

RECURSIVE Pow2(_)
Pow2(n) == IF n = 0 THEN 1 ELSE 2 * Pow2(n - 1)

----------------------------------------------------------------------------
\* Messages are sequences of text pieces; an interpolated value is one piece.

RECURSIVE QueryString(_)
QueryString(params) ==
    IF params = {} THEN <<>>
    ELSE LET p == CHOOSE q \in params : TRUE
         IN  <<p[1], "=", p[2]>> \o QueryString(params \ {p})

StatusText(status) ==
    CASE status = 200 -> "200" [] status = 204 -> "204" [] status = 404 -> "404"
      [] status = 429 -> "429" [] status = 500 -> "500"

\* requests.Response.raise_for_status: "<status> <kind> Error: <reason> for url: <url>"
\* where the url is the prepared one, query string included.
HTTPErrorMsg(status, url, params) ==
    <<StatusText(status), " Server Error for url: ">> \o url \o <<"?">> \o QueryString(params)

LevelNo(level) ==
    CASE level = "DEBUG" -> 10 [] level = "INFO" -> 20
      [] level = "WARNING" -> 30 [] level = "ERROR" -> 40

\* logger.<level>(msg): a record is emitted only at or above the logger's level.
Log(records, level, msg) ==
    IF LevelNo(level) >= LevelNo(LoggerLevel) THEN records \cup {msg} ELSE records

----------------------------------------------------------------------------
\* What one network call may end in: a response with a status, or a transport error.

FastOutcomes ==
    [kind : {"response"}, status : {200}, body : Bodies]
    \cup [kind : {"response"}, status : {204, 404, 429, 500}, body : {"-"}]
    \cup [kind : {"connection_error"}, status : {0}, body : {"-"}]

\* A 200 whose body is no JSON at all, or JSON without the `results` list
MalformedBodies == {"not-json", "no-results"}

MalformedOutcomes == [kind : {"response"}, status : {200}, body : MalformedBodies]

Outcomes(e) == FastOutcomes \cup (IF e.malformed THEN MalformedOutcomes ELSE {})

TimeoutOutcome == [kind |-> "timeout", status |-> 0, body |-> "-"]

NoOutcome == [kind |-> "none", status |-> 0, body |-> "-"]

\* search_games(query, **kwargs): the positional query and the extra filters,
\* one of which may itself be named `search`
Queries == {"halo"}
SearchKwargs == { {}, {<<"page", "1">>}, {<<"search", "zelda">>} }
SearchArgs == {{<<"query", q>>} \cup kw : q \in Queries, kw \in SearchKwargs}

Ops ==
    [op : {"_make_request"}, arg : ParamChoices]
    \cup [op : {"get_games"}, arg : {{}}]
    \cup [op : {"get_developers"}, arg : {{<<"page", "1">>}}]
    \cup [op : {"get_game_details"}, arg : GameIds]
    \cup [op : {"search_games"}, arg : SearchArgs]

NoResult == [kind |-> "none", exc |-> "-", value |-> "-", msg |-> <<>>]
Returned(v) == [kind |-> "returned", exc |-> "-", value |-> v, msg |-> <<>>]
Raised(e, m) == [kind |-> "raised", exc |-> e, value |-> "-", msg |-> m]

NoRequest == [url |-> <<>>, params |-> {}]

NoKey == [fn |-> "-", self |-> "-", arg |-> {}]

IdleThread ==
    [pc |-> "idle", op |-> "-", arg |-> {}, key |-> NoKey, endpoint |-> <<>>,
     params |-> {}, attempt |-> 0, until |-> 0, timedOut |-> FALSE,
     outcome |-> NoOutcome, netCalls |-> 0, sleeps |-> <<>>, failures |-> {},
     cache0 |-> {}, request |-> NoRequest, logged |-> {}, result |-> NoResult]

----------------------------------------------------------------------------
\* config.py and RAWGClient.__init__

UserAgent == <<"RAWG-Streamlit-Explorer/1.0">>

\* config.py lines 19-57: the settings AppConfig declares
ConfigFields ==
    {"rawg_api_key", "base_url", "user_agent", "api_timeout", "max_retries",
     "retry_delay", "cache_ttl", "max_cache_size"}

ConfigValue(name) ==
    CASE name = "base_url" -> BaseUrl
      [] name = "user_agent" -> UserAgent

\* config.<name>: reading a name AppConfig does not declare raises AttributeError
ConfigGet(name) ==
    IF name \in ConfigFields
    THEN Returned(ConfigValue(name))
    ELSE Raised("AttributeError", <<"'AppConfig' object has no attribute '", name, "'">>)

\* The arguments callers construct the client with; <<>> is an omitted (None) one.
\* app.py passes the key only, pages/01 passes base_url=config.base_url.
BaseUrlArgs == {<<>>, BaseUrl}
UserAgentArgs == {<<>>}

\* lines 70-86: `x or config.y` reads config only when x is missing or empty
RAWGClient(key, base_url, user_agent) ==
    LET b == IF base_url # <<>> THEN Returned(base_url) ELSE ConfigGet("rawg_base_url")
        u == IF user_agent # <<>> THEN Returned(user_agent) ELSE ConfigGet("user_agent")
        args == [base_url |-> base_url, user_agent |-> user_agent]
    IN  IF b.kind = "raised"
        THEN [built |-> FALSE, args |-> args, base_url |-> <<>>, user_agent |-> <<>>,
              exc |-> b.exc]
        ELSE IF u.kind = "raised"
        THEN [built |-> FALSE, args |-> args, base_url |-> b.value, user_agent |-> <<>>,
              exc |-> u.exc]
        ELSE [built |-> TRUE, args |-> args, base_url |-> b.value,
              user_agent |-> u.value, exc |-> "-"]

\* The remote side answers 200 with well-formed bodies only, or with any body;
\* Response.json() raises requests.JSONDecodeError (a RequestException) from
\* requests 2.27 on and a plain ValueError before.
WellFormedEnv == [malformed |-> FALSE, jsonError |-> "RequestException"]
MalformedEnvs == [malformed : {TRUE}, jsonError : {"RequestException", "ValueError"}]

\* No lookup made yet; a result is <<>> (no match) or <<the game chosen>>
NoMatch == [query |-> "-", candidates |-> <<>>, result |-> <<>>]

\* Nothing has happened yet on the pages and in the helpers
NoPopular == [today |-> <<1970, 1, 1>>, ticks |-> 0, calls |-> <<>>]
NoAchievements == [fetched |-> "-", raw |-> <<>>, out |-> <<>>, raised |-> "-"]
NoReply == [method |-> "-", result |-> "-", invoked |-> FALSE, raised |-> "-"]
NoClick == [button |-> "-", user_input |-> "", rendered |-> FALSE]
NoChat == [groq_api_key |-> "", llm |-> FALSE, chain |-> FALSE,
           last |-> NoReply, ui |-> NoClick, history |-> <<>>]
NoFetch == [kind |-> "-", count |-> 0]
NoBrowse == [page |-> 1, params |-> {}, fetched |-> NoFetch, button |-> "-",
             rendered |-> {}, rerun |-> FALSE]
\* The favorites list of the session, the last helper call made on it, and
\* (for the properties) the ids added and not removed since.
NoFavCall == [op |-> "-", game_id |-> 0, result |-> FALSE]
NoFavorites == [list |-> <<>>, call |-> NoFavCall, live |-> {}]

InitUi ==
    /\ pop = NoPopular
    /\ ach = NoAchievements
    /\ chat = NoChat
    /\ page = NoBrowse
    /\ favorites = NoFavorites

InitClient(threads, retries, envs) ==
    /\ active = threads
    /\ max_retries \in retries
    /\ api_key \in ApiKeys
    /\ \E b \in BaseUrlArgs, u \in UserAgentArgs : client = RAWGClient(api_key, b, u)
    /\ env \in envs
    /\ bm = NoMatch
    /\ last_request_time = -MinRequestInterval   \* line 83: 0, the epoch
    /\ selfHashable \in BOOLEAN
    /\ cache = {}
    /\ th = [t \in Threads |-> IdleThread]
    /\ ncalls = 0
    /\ paused = FALSE
    /\ lastStart = -MinRequestInterval
    /\ lastGap = -1

InitEnv(threads, retries, envs) == InitClient(threads, retries, envs) /\ InitUi

InitWith(threads, retries) == InitEnv(threads, retries, {WellFormedEnv})

Init == InitWith({1}, {MaxRetriesDefault})

----------------------------------------------------------------------------
\* retry_on_failure

\* (a slip: the same delay before every retry)
BackoffDelayFlat(delay, attempt) == delay

\* line 46: time.sleep(delay * (2 ** attempt))
BackoffDelay(delay, attempt) == delay * Pow2(attempt)

\* (a slip: the last attempt too is followed by a sleep and another round)
SleepsAfterLast(attempt, retries) == attempt < retries

\* line 44: a failed attempt is followed by a sleep unless it was the last one
SleepsAfter(attempt, retries) == attempt < retries - 1

\* (a slip: except Exception, which catches every failure)
RetryableAny(exc) == TRUE

\* line 42: except (requests.RequestException, RAWGAPIError)
Retryable(exc) == exc \in {"RAWGAPIError", "RateLimitError", "RequestException"}

NumText(n) ==
    CASE n = 0 -> "0" [] n = 1 -> "1" [] n = 2 -> "2" [] n = 3 -> "3"
      [] n = 4 -> "4" [] OTHER -> "n"

\* line 45: the warning names the attempt, the exception text and the base delay
RetryWarning(attempt, msg) ==
    <<"Attempt ", NumText(attempt + 1), " failed: ">> \o msg
        \o <<". Retrying in ", "1.0", "s...">>

\* line 48
ExhaustedError(retries) == <<"All ", NumText(retries), " attempts failed.">>

----------------------------------------------------------------------------
\* RAWGClient._wait_for_rate_limit: how long the caller sleeps before a request

\* (a slip: the wait is skipped)
RateLimitWaitNone(clock, last) == 0

RateLimitWait(clock, last) ==
    LET elapsed == clock - last
    IN  IF elapsed < MinRequestInterval THEN MinRequestInterval - elapsed ELSE 0

----------------------------------------------------------------------------
\* RAWGClient._make_request

\* (a slip: params.setdefault('key', ...), which keeps the caller's entry)
InjectKeyDefault(params, key) ==
    IF \E p \in params : p[1] = "key" THEN params ELSE params \cup {<<"key", key>>}

\* line 115: params['key'] = self.api_key
InjectKey(params, key) ==
    {p \in params : p[1] # "key"} \cup {<<"key", key>>}

\* line 120
DebugMsg(url, params) ==
    <<"Making request to: ">> \o url \o <<" with params: ">> \o QueryString(params)

\* line 126: last_request_time is set once session.get has returned a response
RecordRequestTime(outcome, clock, last) ==
    IF outcome.kind = "response" THEN clock ELSE last

\* The failure classes of the design: throttled (429), transport (timeout or
\* connection error), malformed (a 200 that cannot be parsed), http (any other
\* status that raises)
FailureClass(outcome) ==
    CASE outcome.kind \in {"timeout", "connection_error"} -> "transport"
      [] outcome.status = 429 -> "throttled"
      [] outcome.status = 200 -> "malformed"
      [] OTHER -> "http"

\* line 129: response.json() returns the parsed body whatever its shape, and
\* raises when the body is no JSON
ParseJson(body) ==
    IF body = "not-json"
    THEN Raised(env.jsonError, <<"Expecting value: line 1 column 1 (char 0)">>)
    ELSE Returned(body)

\* lines 142-143: a RequestException raised inside the try is wrapped; what is
\* no RequestException passes through the except clauses
WrapRequestException(res) ==
    IF res.kind = "raised" /\ res.exc = "RequestException"
    THEN Raised("RAWGAPIError", <<"Request failed: ">> \o res.msg)
    ELSE res

\* (a slip: 429 has no error of its own and raises like any other error status)
ExecutorResult429Generic(outcome, url, params) ==
    CASE outcome.kind = "timeout" -> Raised("RAWGAPIError", <<"Request timeout">>)
      [] outcome.kind = "connection_error" -> Raised("RAWGAPIError", <<"Connection error">>)
      [] outcome.kind = "response" /\ outcome.status = 200 ->
            WrapRequestException(ParseJson(outcome.body))
      [] outcome.kind = "response" /\ outcome.status = 404 -> Returned("{}")
      [] outcome.kind = "response" /\ outcome.status >= 400 ->
            Raised("RAWGAPIError",
                   <<"Request failed: ">> \o HTTPErrorMsg(outcome.status, url, params))
      [] OTHER -> Returned("None")

\* (a slip: no branch for 404, which then raises like any other error status)
ExecutorResult404Raises(outcome, url, params) ==
    CASE outcome.kind = "timeout" -> Raised("RAWGAPIError", <<"Request timeout">>)
      [] outcome.kind = "connection_error" -> Raised("RAWGAPIError", <<"Connection error">>)
      [] outcome.kind = "response" /\ outcome.status = 200 ->
            WrapRequestException(ParseJson(outcome.body))
      [] outcome.kind = "response" /\ outcome.status = 429 ->
            Raised("RateLimitError", <<"Rate limit exceeded">>)
      [] outcome.kind = "response" /\ outcome.status >= 400 ->
            Raised("RAWGAPIError",
                   <<"Request failed: ">> \o HTTPErrorMsg(outcome.status, url, params))
      [] OTHER -> Returned("None")

\* lines 128-143: what one attempt returns or raises
ExecutorResult(outcome, url, params) ==
    CASE outcome.kind = "timeout" -> Raised("RAWGAPIError", <<"Request timeout">>)
      [] outcome.kind = "connection_error" -> Raised("RAWGAPIError", <<"Connection error">>)
      [] outcome.kind = "response" /\ outcome.status = 200 ->
            WrapRequestException(ParseJson(outcome.body))
      [] outcome.kind = "response" /\ outcome.status = 429 ->
            Raised("RateLimitError", <<"Rate limit exceeded">>)
      [] outcome.kind = "response" /\ outcome.status = 404 -> Returned("{}")
      [] outcome.kind = "response" /\ outcome.status >= 400 ->
            \* raise_for_status raises HTTPError, which line 142 wraps
            Raised("RAWGAPIError",
                   <<"Request failed: ">> \o HTTPErrorMsg(outcome.status, url, params))
      [] OTHER -> Returned("None")   \* raise_for_status returns, the method falls off its end

----------------------------------------------------------------------------
\* st.cache_data

\* The key hashes every argument whose name has no leading underscore: get_games
\* declares _self, the other facade methods declare self, whose hashed state
\* holds last_request_time.  The key's self is "current" while last_request_time
\* still has the value that was hashed, "stale" once it has another.
CacheKey(op, arg) ==
    [fn |-> op, self |-> IF op = "get_games" THEN "-" ELSE "current", arg |-> arg]

\* last_request_time has taken a new value: no key hashed before matches a new one
Outdate(key) == IF key.self = "current" THEN [key EXCEPT !.self = "stale"] ELSE key

CacheHits(entries, key) ==
    {e \in entries : e.key = key /\ 0 - e.at < CacheTtl}

\* (a slip: the outcome is stored whether the method returned or raised)
CacheStoreAlways(entries, key, res) ==
    {e \in entries : e.key # key}
        \cup {[key |-> key, at |-> 0,
                value |-> IF res.kind = "returned" THEN res.value ELSE res.exc]}

\* A value is stored when the wrapped method returns, never when it raises.
CacheStore(entries, key, res) ==
    IF res.kind = "returned"
    THEN {e \in entries : e.key # key} \cup {[key |-> key, value |-> res.value, at |-> 0]}
    ELSE entries

\* {**a, **b}: an entry of b replaces the entry of a with the same name
DictMerge(a, b) == {p \in a : ~\E q \in b : q[1] = p[1]} \cup b

\* f(name=value, **star) at a call site: a name given twice is a TypeError
KwCall(explicit, star) ==
    IF \E p \in explicit, q \in star : p[1] = q[1]
    THEN Raised("TypeError", <<"got multiple values for keyword argument">>)
    ELSE Returned(explicit \cup star)

QueryOf(arg) == (CHOOSE p \in arg : p[1] = "query")[2]
KwargsOf(arg) == {p \in arg : p[1] # "query"}

\* (a slip: the query is left out of the params)
SearchParamsNoQuery(query, kwargs) == kwargs

\* line 439: params = {'search': query, **kwargs}
SearchParams(query, kwargs) == DictMerge({<<"search", query>>}, kwargs)

\* lines 145-168: get_games behind st.cache_data.  The key leaves _self out;
\* on a miss the body runs, and line 168 names `self`, which is not defined.
get_games(entries, kwargs) ==
    LET hits == CacheHits(entries, CacheKey("get_games", kwargs))
    IN  IF hits # {}
        THEN Returned((CHOOSE e \in hits : TRUE).value)
        ELSE Raised("NameError", <<"name 'self' is not defined">>)

IsFacade(op) == op \in {"get_games", "get_game_details", "get_developers"}

EndpointOf(op, arg) ==
    CASE op = "get_game_details" -> API_ENDPOINTS("game_detail", arg)
      [] op = "get_developers" -> API_ENDPOINTS("developers", arg)
      [] OTHER -> API_ENDPOINTS("games", arg)

\* get_game_details passes no params (None becomes {}), search_games builds
\* them from its query, the others pass kwargs
ParamsOf(op, arg) ==
    CASE op = "get_game_details" -> {}
      [] op = "search_games" -> SearchParams(QueryOf(arg), KwargsOf(arg))
      [] OTHER -> arg

----------------------------------------------------------------------------
\* Actions. A call is cut where the caller blocks: time.sleep and session.get.

Blocked(t) == th[t].pc \in {"rl_sleep", "inflight", "backoff"}

\* The wrapper of retry_on_failure is entered: range(max_retries) may be empty,
\* and then line 49 raises last_exception, which is None.
EnterWrapper(rec, retries) ==
    IF retries <= 0
    THEN [rec EXCEPT !.pc = "idle",
                     !.result = Raised("TypeError", <<"exceptions must derive from BaseException">>)]
    ELSE [rec EXCEPT !.pc = "attempt", !.attempt = 0]

\* A caller invokes _make_request or a facade method; st.cache_data answers a
\* facade call from its store when it can.
StartCall(t) ==
    /\ t \in active
    /\ client.built
    /\ th[t].pc = "idle"
    /\ ncalls < MaxCalls
    /\ \E o \in Ops :
         LET key  == IF o.op = "search_games"
                     THEN CacheKey("get_games", ParamsOf(o.op, o.arg))
                     ELSE CacheKey(o.op, o.arg)
             hits == CacheHits(cache, key)
             rec  == [IdleThread EXCEPT !.op = o.op, !.arg = o.arg, !.key = key,
                                        !.endpoint = urljoin(client.base_url, EndpointOf(o.op, o.arg)),
                                        !.params = ParamsOf(o.op, o.arg),
                                        !.cache0 = cache]
         IN  th' = [th EXCEPT ![t] =
                 CASE o.op = "_make_request" -> EnterWrapper(rec, max_retries)
                   [] o.op = "search_games" ->
                        \* line 440: return self.get_games(**params)
                        [rec EXCEPT !.result = get_games(cache, rec.params)]
                   [] o.op # "get_games" /\ ~selfHashable ->
                        [rec EXCEPT !.result = Raised("UnhashableParamError",
                                                      <<"Cannot hash argument 'self'">>)]
                   [] IsFacade(o.op) /\ hits # {} ->
                        [rec EXCEPT !.result = Returned((CHOOSE e \in hits : TRUE).value)]
                   [] o.op = "get_games" ->
                        \* line 168: the body names self, the parameter is _self
                        [rec EXCEPT !.result = Raised("NameError",
                                                      <<"name 'self' is not defined">>)]
                   [] OTHER -> EnterWrapper(rec, max_retries)]
    /\ ncalls' = ncalls + 1
    /\ paused' = FALSE
    /\ UNCHANGED <<uiVars, client, env, bm, active, max_retries, api_key, last_request_time,
                   selfHashable, cache, lastStart, lastGap>>

\* lines 112-125: the key is injected and session.get starts; it will take under
\* 0.1 s, over 0.1 s, or the whole timeout
Send(t) ==
    LET params == InjectKey(th[t].params, api_key)
    IN  /\ \E d \in FastDurations \cup {ApiTimeout} :
             th' = [th EXCEPT ![t].pc = "inflight", ![t].params = params,
                              ![t].until = d, ![t].timedOut = (d = ApiTimeout),
                              ![t].netCalls = @ + 1,
                              ![t].request = [url |-> th[t].endpoint, params |-> params],
                              ![t].logged = Log({}, "DEBUG", DebugMsg(th[t].endpoint, params))]
        /\ lastGap' = 0 - lastStart
        /\ lastStart' = 0
        /\ UNCHANGED <<uiVars, client, env, bm, active, max_retries, api_key, last_request_time,
                       selfHashable, cache, ncalls, paused>>

\* line 110: an attempt starts with _wait_for_rate_limit
BeginAttempt(t) ==
    /\ t \in active
    /\ th[t].pc = "attempt"
    /\ LET wait == RateLimitWait(0, last_request_time)
       IN  IF wait > 0
           THEN /\ th' = [th EXCEPT ![t].pc = "rl_sleep", ![t].until = wait]
                /\ UNCHANGED <<uiVars, client, env, bm, active, max_retries, api_key, last_request_time,
                               selfHashable, cache, ncalls, paused, lastStart, lastGap>>
           ELSE Send(t)

\* line 92: time.sleep returns
WakeSend(t) ==
    /\ t \in active
    /\ th[t].pc = "rl_sleep"
    /\ th[t].until <= 0
    /\ Send(t)

\* (a slip: once the attempts are used up the wrapper returns an empty result)
AfterAttemptSwallow(rec, res, retries) ==
    IF res.kind = "returned"
    THEN [rec EXCEPT !.pc = "idle", !.result = res]
    ELSE IF ~Retryable(res.exc)
    THEN [rec EXCEPT !.pc = "idle", !.result = res,
                     !.failures = @ \cup {FailureClass(rec.outcome)}]
    ELSE IF SleepsAfter(rec.attempt, retries)
    THEN [rec EXCEPT !.pc = "backoff",
                     !.failures = @ \cup {FailureClass(rec.outcome)},
                     !.until = BackoffDelay(RetryDelay, rec.attempt),
                     !.sleeps = Append(@, BackoffDelay(RetryDelay, rec.attempt)),
                     !.logged = Log({}, "WARNING", RetryWarning(rec.attempt, res.msg))]
    ELSE [rec EXCEPT !.pc = "idle", !.result = Returned("{}"),
                     !.failures = @ \cup {FailureClass(rec.outcome)},
                     !.logged = Log({}, "ERROR", ExhaustedError(retries))]

\* What the wrapper does with the attempt's result: return it, sleep and go
\* round again, or give up and raise
AfterAttempt(rec, res, retries) ==
    IF res.kind = "returned"
    THEN [rec EXCEPT !.pc = "idle", !.result = res]
    ELSE IF ~Retryable(res.exc)
    THEN [rec EXCEPT !.pc = "idle", !.result = res,
                     !.failures = @ \cup {FailureClass(rec.outcome)}]
    ELSE IF SleepsAfter(rec.attempt, retries)
    THEN [rec EXCEPT !.pc = "backoff",
                     !.failures = @ \cup {FailureClass(rec.outcome)},
                     !.until = BackoffDelay(RetryDelay, rec.attempt),
                     !.sleeps = Append(@, BackoffDelay(RetryDelay, rec.attempt)),
                     !.logged = Log({}, "WARNING", RetryWarning(rec.attempt, res.msg))]
    ELSE [rec EXCEPT !.pc = "idle", !.result = res,
                     !.failures = @ \cup {FailureClass(rec.outcome)},
                     !.logged = Log({}, "ERROR", ExhaustedError(retries))]

\* session.get returns or raises; the attempt ends, then the wrapper decides
Receive(t) ==
    /\ t \in active
    /\ th[t].pc = "inflight"
    /\ th[t].until <= 0
    /\ \E o \in (IF th[t].timedOut THEN {TimeoutOutcome} ELSE Outcomes(env)) :
         LET res  == ExecutorResult(o, th[t].endpoint, th[t].params)
             lrt  == RecordRequestTime(o, 0, last_request_time)
             old  == lrt # last_request_time
             rec  == AfterAttempt([th[t] EXCEPT !.outcome = o, !.logged = {}],
                                  res, max_retries)
             done == rec.pc = "idle" /\ IsFacade(rec.op)
             kept == IF old THEN {[e EXCEPT !.key = Outdate(@)] : e \in cache} ELSE cache
         IN  /\ last_request_time' = lrt
             /\ th' = [u \in Threads |->
                         LET r == IF u = t THEN rec ELSE th[u]
                         IN  IF old THEN [r EXCEPT !.key = Outdate(@)] ELSE r]
             /\ cache' = IF done
                         THEN CacheStore(kept, IF old THEN Outdate(rec.key) ELSE rec.key,
                                         rec.result)
                         ELSE kept
    /\ UNCHANGED <<uiVars, client, env, bm, active, max_retries, api_key, selfHashable, ncalls, paused,
                   lastStart, lastGap>>

\* line 46: the backoff sleep returns and the loop takes its next attempt
Retry(t) ==
    /\ t \in active
    /\ th[t].pc = "backoff"
    /\ th[t].until <= 0
    /\ th' = [th EXCEPT ![t].pc = "attempt", ![t].attempt = @ + 1]
    /\ UNCHANGED <<uiVars, client, env, bm, active, max_retries, api_key, last_request_time,
                   selfHashable, cache, ncalls, paused, lastStart, lastGap>>

\* Time passes by d: every stored time moves d into the past.
Elapse(d) ==
    /\ last_request_time' = Max(last_request_time - d, -MinRequestInterval)
    /\ lastStart' = Max(lastStart - d, -MinRequestInterval)
    /\ cache' = {[e EXCEPT !.at = Max(@ - d, -CacheTtl)] : e \in cache}
    /\ th' = [t \in Threads |->
                IF Blocked(t) THEN [th[t] EXCEPT !.until = Max(@ - d, 0)] ELSE th[t]]

\* Time passes up to the next moment a blocked caller can go on.
Advance ==
    LET deadlines == {th[t].until : t \in {u \in active : Blocked(u) /\ th[u].until > 0}}
    IN  /\ deadlines # {}
        /\ Elapse(Min(deadlines))
        /\ UNCHANGED <<uiVars, client, env, bm, active, max_retries, api_key, selfHashable, ncalls, paused, lastGap>>

\* Between two calls the callers may let time pass.
Pause ==
    /\ \A t \in active : th[t].pc = "idle"
    /\ ~paused
    /\ ncalls > 0
    /\ ncalls < MaxCalls
    /\ \E d \in PauseDurations : Elapse(d)
    /\ paused' = TRUE
    /\ UNCHANGED <<uiVars, client, env, bm, active, max_retries, api_key, selfHashable, ncalls, lastGap>>

Next ==
    \/ \E t \in Threads : StartCall(t)
    \/ \E t \in Threads : BeginAttempt(t)
    \/ \E t \in Threads : WakeSend(t)
    \/ \E t \in Threads : Receive(t)
    \/ \E t \in Threads : Retry(t)
    \/ Advance
    \/ Pause

Spec == Init /\ [][Next]_vars

\* Two threads share the client (st.cache_resource hands every session the same one).
\* config.max_retries is a setting; the shared runs use the smaller budgets.
SharedRetries == {1, 2}

InitShared == InitWith({1, 2}, SharedRetries)

SpecShared == InitShared /\ [][Next]_vars

\* What the code's scheduling guarantees: a thread that can take its next step
\* takes it (time.sleep returns, session.get returns or times out after
\* config.api_timeout), and time passes.
ThreadStep(t) == BeginAttempt(t) \/ WakeSend(t) \/ Receive(t) \/ Retry(t)

SpecFair ==
    /\ Init /\ [][Next]_vars
    /\ \A t \in Threads : WF_vars(ThreadStep(t))
    /\ WF_vars(Advance)

----------------------------------------------------------------------------
\* The best-match lookup of the Advanced Search page: client.search_best_match.
\* The method is not part of rawg_client.py; it is modelled from its
\* specification (search helpers, best fuzzy match).

BestMatchQueries == {"portal 2", "Halo 5"}
GameNames == {"Portal 2", "PORTAL 2", "Halo 5: Guardians", "Halo Infinite"}

\* str.lower()
Lower(name) ==
    CASE name \in {"Portal 2", "PORTAL 2", "portal 2"} -> "portal 2"
      [] name \in {"Halo 5", "halo 5"} -> "halo 5"
      [] name = "Halo 5: Guardians" -> "halo 5: guardians"
      [] name = "Halo Infinite" -> "halo infinite"

\* The similarity of a candidate's name to the query, in percent, and the
\* cutoff a closest match has to exceed
Ratios == {40, 60, 80}
SimilarityCutoff == 60

\* What the text search returns: the games in the remote ranking's order
Candidates == [name : GameNames, ratio : Ratios]

RECURSIVE SeqsUpTo(_, _)
SeqsUpTo(S, n) ==
    IF n = 0 THEN {<<>>}
    ELSE LET shorter == SeqsUpTo(S, n - 1)
         IN  shorter \cup {Append(q, x) : q \in shorter, x \in S}

CandidateLists == SeqsUpTo(Candidates, MaxCandidates)

\* The first candidate from position i on whose name equals the query when
\* both are lowered; 0 when there is none
RECURSIVE FirstExact(_, _, _)
FirstExact(query, cands, i) ==
    IF i > Len(cands) THEN 0
    ELSE IF Lower(cands[i].name) = Lower(query) THEN i
    ELSE FirstExact(query, cands, i + 1)

\* The position of the closest candidate among the first n: the highest ratio,
\* the earlier one of two equally close
RECURSIVE Closest(_, _)
Closest(cands, n) ==
    IF n = 1 THEN 1
    ELSE LET best == Closest(cands, n - 1)
         IN  IF cands[n].ratio > cands[best].ratio THEN n ELSE best

\* (a slip: the exact-name step is left out)
search_best_match_no_exact(query, cands) ==
    IF cands = <<>> THEN <<>>
    ELSE LET close == Closest(cands, Len(cands))
         IN  IF cands[close].ratio > SimilarityCutoff THEN <<cands[close]>>
             ELSE <<cands[1]>>

search_best_match(query, cands) ==
    IF cands = <<>> THEN <<>>
    ELSE LET exact == FirstExact(query, cands, 1)
             close == Closest(cands, Len(cands))
         IN  IF exact # 0 THEN <<cands[exact]>>
             ELSE IF cands[close].ratio > SimilarityCutoff THEN <<cands[close]>>
             ELSE <<cands[1]>>

\* pages/09 line 20: game = client.search_best_match(game_name)
BestMatch ==
    /\ \E q \in BestMatchQueries, cands \in CandidateLists :
         bm' = [query |-> q, candidates |-> cands, result |-> search_best_match(q, cands)]
    /\ UNCHANGED <<uiVars, client, env, active, max_retries, api_key, last_request_time,
                   selfHashable, cache, th, ncalls, paused, lastStart, lastGap>>

InitBestMatch == InitWith({1}, {MaxRetriesDefault}) /\ client.built /\ selfHashable

NextBestMatch == BestMatch

SpecBestMatch == InitBestMatch /\ [][NextBestMatch]_vars

----------------------------------------------------------------------------
\* RAWGClient.get_popular_games.  A date is <<year, month, day>>; the time of
\* day plays no part, strftime('%Y-%m-%d') drops it.

IsLeap(y) == (y % 4 = 0 /\ y % 100 # 0) \/ y % 400 = 0

DaysInMonth(y, m) ==
    CASE m \in {4, 6, 9, 11} -> 30
      [] m = 2 -> IF IsLeap(y) THEN 29 ELSE 28
      [] OTHER -> 31

PrevDay(date) ==
    LET y == date[1]
        m == date[2]
        d == date[3]
    IN  IF d > 1 THEN <<y, m, d - 1>>
        ELSE IF m > 1 THEN <<y, m - 1, DaysInMonth(y, m - 1)>>
        ELSE <<y - 1, 12, 31>>

NextDay(date) ==
    LET y == date[1]
        m == date[2]
        d == date[3]
    IN  IF d < DaysInMonth(y, m) THEN <<y, m, d + 1>>
        ELSE IF m < 12 THEN <<y, m + 1, 1>>
        ELSE <<y + 1, 1, 1>>

\* date - timedelta(days=n): within the month when the day allows it, else
\* from the last day of the month before
RECURSIVE MinusDays(_, _)
MinusDays(date, n) ==
    IF n < date[3] THEN <<date[1], date[2], date[3] - n>>
    ELSE MinusDays(PrevDay(<<date[1], date[2], 1>>), n - date[3])

Pad2(n) == IF n < 10 THEN "0" \o ToString(n) ELSE ToString(n)

\* date.strftime('%Y-%m-%d')
Strftime(date) == ToString(date[1]) \o "-" \o Pad2(date[2]) \o "-" \o Pad2(date[3])

\* lines 455-462: timedelta(weeks=1), timedelta(days=30), timedelta(days=365),
\* and one week for any other time_period
PeriodDays(time_period) ==
    CASE time_period = "week" -> 7
      [] time_period = "month" -> 30
      [] time_period = "year" -> 365
      [] OTHER -> 7

\* (a slip: the computed entries replace the caller's)
PopularParamsComputedWin(dates, kwargs) ==
    DictMerge(kwargs, {<<"dates", dates>>, <<"ordering", "-rating">>})

\* lines 465-469: params = {'dates': dates, 'ordering': '-rating', **kwargs}
PopularParams(dates, kwargs) ==
    DictMerge({<<"dates", dates>>, <<"ordering", "-rating">>}, kwargs)

\* lines 442-470, with now = datetime.now() read at line 454
get_popular_games(now, entries, time_period, kwargs) ==
    LET start_date == MinusDays(now, PeriodDays(time_period))
        dates == Strftime(start_date) \o "," \o Strftime(now)
        params == PopularParams(dates, kwargs)
    IN  [time_period |-> time_period, kwargs |-> kwargs, now |-> now,
         start_date |-> start_date,
         dates |-> dates, params |-> params, result |-> get_games(entries, params)]

\* The dates the wall clock shows at the start, the arguments callers pass
Todays == {<<2024, 3, 1>>, <<2023, 3, 1>>, <<2024, 12, 31>>, <<2025, 1, 3>>}
TimePeriods == {"week", "month", "year", "decade"}
PopularKwargs ==
    { {}, {<<"dates", "2000-01-01,2000-12-31">>},
      {<<"ordering", "-added">>, <<"page", "2">>} }

\* A caller invokes get_popular_games; the model keeps the last two calls
PopularCall ==
    /\ \E p \in TimePeriods, kw \in PopularKwargs :
         LET call == get_popular_games(pop.today, cache, p, kw)
         IN  pop' = [pop EXCEPT !.calls = IF Len(@) = 2 THEN <<@[2], call>>
                                          ELSE Append(@, call)]
    /\ UNCHANGED <<ach, chat, page, favorites, bm, clientVars>>

\* Midnight passes on the wall clock
Tick ==
    /\ pop.ticks < MaxTicks
    /\ pop' = [pop EXCEPT !.today = NextDay(@), !.ticks = @ + 1]
    /\ UNCHANGED <<ach, chat, page, favorites, bm, clientVars>>

InitPopular ==
    /\ InitClient({1}, {MaxRetriesDefault}, {WellFormedEnv})
    /\ client.built /\ selfHashable
    /\ \E d \in Todays : pop = [today |-> d, ticks |-> 0, calls |-> <<>>]
    /\ ach = NoAchievements /\ chat = NoChat /\ page = NoBrowse
    /\ favorites = NoFavorites

NextPopular == PopularCall \/ Tick

SpecPopular == InitPopular /\ [][NextPopular]_vars

----------------------------------------------------------------------------
\* Advanced Search page, lines 67-78: the achievements' `percent` is made a
\* float or None.  A raw percent is what the JSON held under "percent": nothing
\* (missing, so .get gives None), null, a string, a number, a list.  A float
\* is counted in tenths.

RawPercents ==
    {[type |-> "missing", text |-> "-", num |-> 0],
     [type |-> "null", text |-> "-", num |-> 0],
     [type |-> "str", text |-> "abc", num |-> 0],
     [type |-> "str", text |-> "", num |-> 0],
     [type |-> "str", text |-> "12.5", num |-> 0],
     [type |-> "str", text |-> " 7 ", num |-> 0],
     [type |-> "str", text |-> "nan", num |-> 0],
     [type |-> "int", text |-> "-", num |-> 50],
     [type |-> "float", text |-> "-", num |-> 125],
     [type |-> "bigint", text |-> "10**400", num |-> 0],   \* an int beyond the floats
     [type |-> "list", text |-> "-", num |-> 0]}

NoneValue == [type |-> "None", text |-> "-", num |-> 0]
FloatValue(tenths) == [type |-> "float", text |-> "-", num |-> tenths]
NaN == [type |-> "float", text |-> "nan", num |-> 0]

\* float(text): surrounding blanks are allowed, 'nan' and 'inf' are floats
FloatOfText(text) ==
    CASE text = "12.5" -> Returned(FloatValue(125))
      [] text = " 7 " -> Returned(FloatValue(70))
      [] text = "nan" -> Returned(NaN)
      [] OTHER -> Raised("ValueError", <<"could not convert string to float">>)

\* float(x)
Float(x) ==
    CASE x.type \in {"missing", "null", "list"} ->
            Raised("TypeError", <<"float() argument must be a string or a real number">>)
      [] x.type = "str" -> FloatOfText(x.text)
      [] x.type = "int" -> Returned(FloatValue(10 * x.num))
      [] x.type = "float" -> Returned(x)
      [] x.type = "bigint" ->
            Raised("OverflowError", <<"int too large to convert to float">>)

\* line 76: except (ValueError, TypeError)
Caught(exc) == exc \in {"ValueError", "TypeError"}

\* lines 72-77, from achievement i on: each percent is replaced in place; an
\* exception the except clause does not name ends the loop and the page run
RECURSIVE NormalizeFrom(_, _)
NormalizeFrom(state, i) ==
    IF i > Len(state.raw) THEN state
    ELSE LET r == Float(state.raw[i])
         IN  IF r.kind = "returned"
             THEN NormalizeFrom([state EXCEPT !.out[i] = r.value], i + 1)
             ELSE IF Caught(r.exc)
             THEN NormalizeFrom([state EXCEPT !.out[i] = NoneValue], i + 1)
             ELSE [state EXCEPT !.raised = r.exc]

\* What get_achievements_by_game_id hands the page: None, an empty list, a
\* list of achievements, or something that is no list
AchievementLists == SeqsUpTo(RawPercents, MaxAchievements)

\* line 70: `if achievements and isinstance(achievements, list)`
RunAchievements ==
    /\ \/ \E f \in {"None", "dict"} :
             ach' = [NoAchievements EXCEPT !.fetched = f]
       \/ \E l \in AchievementLists :
             ach' = IF l = <<>>
                    THEN [NoAchievements EXCEPT !.fetched = "list"]
                    ELSE NormalizeFrom([fetched |-> "list", raw |-> l, out |-> l,
                                        raised |-> "-"], 1)
    /\ UNCHANGED <<pop, chat, page, favorites, bm, clientVars>>

InitAchievements == InitWith({1}, {MaxRetriesDefault}) /\ client.built /\ selfHashable

NextAchievements == RunAchievements

SpecAchievements == InitAchievements /\ [][NextAchievements]_vars

----------------------------------------------------------------------------
\* GroqChatManager and display_chat_interface (helpers.py).  The manager is
\* built once per session (get_chat_manager keeps it in the session state);
\* llm and chain are TRUE when the attribute holds an object, FALSE for None.

ERROR_MESSAGES ==
    [ai_not_available |->
        "AI features are currently unavailable. Please check your Groq API key."]

GroqKeys == {"", "gsk_live"}

\* What the construction of the model and of the chain does.
GroqInits == {"ok", "ChatGroq raises", "chain raises"}

\* __init__: both attributes start as None; with a key the model and then the
\* chain are built, and any exception on the way resets both to None.
GroqChatManager(key, init) ==
    LET none  == [groq_api_key |-> key, llm |-> FALSE, chain |-> FALSE]
        llmOk == [none EXCEPT !.llm = TRUE]
        built == [llmOk EXCEPT !.chain = TRUE]
    IN  IF key = "" THEN none
        ELSE CASE init = "ok"              -> built
               [] init = "ChatGroq raises" -> none
               [] init = "chain raises"    -> [llmOk EXCEPT !.llm = FALSE, !.chain = FALSE]

\* The slip: availability read off the key.
is_available_by_key(m) == m.groq_api_key # ""

is_available(m) == m.chain

ChatMethods == {"get_response", "analyze_game", "get_recommendations", "analyze_trends"}

\* What invoking the model does: it answers, or raises an Exception.
ModelReplies == {"Try Hades."}
ModelErrors == {"Connection error."}
ModelOutcomes == [kind : {"reply"}, text : ModelReplies]
                 \cup [kind : {"raise"}, text : ModelErrors]

\* The text each method returns from its except branch.
Apology(method, e) ==
    CASE method = "get_response"        -> "Sorry, I encountered an error: " \o e
      [] method = "analyze_game"        -> "Sorry, I couldn't analyze this game: " \o e
      [] method = "get_recommendations" -> "Sorry, I couldn't generate recommendations: " \o e
      [] method = "analyze_trends"      -> "Sorry, I couldn't analyze trends: " \o e

\* One call of a manager method: the guard, then the invocation inside try.
\* get_response invokes the chain, the other three the model itself.
ManagerCall(m, method, outcome) ==
    IF ~is_available(m)
    THEN [method |-> method, result |-> ERROR_MESSAGES.ai_not_available,
          invoked |-> FALSE, raised |-> "-"]
    ELSE IF (IF method = "get_response" THEN ~m.chain ELSE ~m.llm)
    THEN [method |-> method, result |-> Apology(method, "'NoneType' object has no attribute 'invoke'"),
          invoked |-> FALSE, raised |-> "-"]
    ELSE IF outcome.kind = "raise"
    THEN [method |-> method, result |-> Apology(method, outcome.text),
          invoked |-> TRUE, raised |-> "-"]
    ELSE [method |-> method, result |-> outcome.text, invoked |-> TRUE, raised |-> "-"]

get_response(m, user_input, outcome) == ManagerCall(m, "get_response", outcome).result

Manager == [groq_api_key |-> chat.groq_api_key, llm |-> chat.llm, chain |-> chat.chain]

\* A page calls one of the manager's methods.
CallManager ==
    \E method \in ChatMethods, outcome \in ModelOutcomes :
        /\ chat' = [chat EXCEPT !.last = ManagerCall(Manager, method, outcome)]
        /\ UNCHANGED <<pop, ach, page, favorites, bm, clientVars>>

UserInputs == {"", "best rpg?", "hi"}

Message(role, content) == [role |-> role, content |-> content]

\* The slip: the messages appended whatever the input.
SendMessagesAlways(history, user_input, ai_response) ==
    history \o <<Message("user", user_input), Message("assistant", ai_response)>>

\* The body of the Send branch: with a non-empty input the user's message and
\* then the assistant's are appended (the timestamps are left out).
SendMessages(history, user_input, ai_response) ==
    IF user_input # ""
    THEN history \o <<Message("user", user_input), Message("assistant", ai_response)>>
    ELSE history

\* display_chat_interface with Send clicked.  An unavailable manager makes the
\* interface return before the button is drawn.
ClickSend ==
    \E user_input \in UserInputs, outcome \in ModelOutcomes :
        IF ~is_available(Manager)
        THEN /\ chat' = [chat EXCEPT !.ui = [button |-> "Send", user_input |-> user_input,
                                             rendered |-> FALSE]]
             /\ UNCHANGED <<pop, ach, page, favorites, bm, clientVars>>
        ELSE /\ user_input # "" => Len(chat.history) + 2 <= MaxMessages
             /\ chat' = [chat EXCEPT
                    !.ui = [button |-> "Send", user_input |-> user_input, rendered |-> TRUE],
                    !.history = SendMessages(@, user_input,
                                    get_response(Manager, user_input, outcome))]
             /\ UNCHANGED <<pop, ach, page, favorites, bm, clientVars>>

\* display_chat_interface with Clear Chat clicked.
ClickClear ==
    /\ chat' = [chat EXCEPT
           !.ui = [button |-> "Clear Chat", user_input |-> "",
                   rendered |-> is_available(Manager)],
           !.history = IF is_available(Manager) THEN <<>> ELSE @]
    /\ UNCHANGED <<pop, ach, page, favorites, bm, clientVars>>

\* A session: init_session_state has run and the manager has been built.
InitChat ==
    /\ InitClient({1}, {MaxRetriesDefault}, {WellFormedEnv})
    /\ client.built /\ selfHashable
    /\ pop = NoPopular /\ ach = NoAchievements /\ page = NoBrowse
    /\ favorites = NoFavorites
    /\ \E key \in GroqKeys, init \in GroqInits :
           LET m == GroqChatManager(key, init)
           IN  chat = [NoChat EXCEPT !.groq_api_key = m.groq_api_key,
                                     !.llm = m.llm, !.chain = m.chain]

NextChat == CallManager \/ ClickSend \/ ClickClear

SpecChat == InitChat /\ [][NextChat]_vars

----------------------------------------------------------------------------
\* The Browse Games page (pages/01).  One step is one run of the script: the
\* run a click starts sees that button as pressed, and a run that ends in
\* st.experimental_rerun() is followed by a run with no button pressed.

SearchTexts == {"", "zelda"}

\* What rawg.get_games(**params) does for the page: it raises (as the method
\* of rawg_client.py does on every cache miss), or returns the listing with
\* its count.
TotalResults == {0, 20, 21, 41, 61}
FetchOutcomes == {[kind |-> "raised", count |-> 0]}
                 \cup [kind : {"data"}, count : TotalResults]

\* Lines 97-101 and 102-103: the parameters of the games request.
BrowseParams(p, search_query) ==
    {<<"page", p>>, <<"page_size", DefaultPageSize>>}
    \cup (IF search_query # "" THEN {<<"search", search_query>>} ELSE {})

\* The slip: Previous without its guard.
PreviousPageAlways(p, pressed) == IF pressed THEN p - 1 ELSE p

\* Lines 152-154
PreviousPage(p, pressed) == IF pressed /\ p > 1 THEN p - 1 ELSE p

\* Lines 156-160: the Next button is drawn only when more results follow.
NextShown(p, total_results) == total_results > p * DefaultPageSize

NextPage(p, total_results, pressed) ==
    IF NextShown(p, total_results) /\ pressed THEN p + 1 ELSE p

\* One run of main(), with the button whose click started it ("-" for a
\* rerun or a first load).  Reset ends the run at line 95; a failed fetch
\* ends it at line 120, before the pagination buttons are drawn.
RunBrowse(button) ==
    \E search_query \in SearchTexts, o \in FetchOutcomes :
        LET p == page.page
            params == BrowseParams(p, search_query)
            afterPrev == PreviousPage(p, button = "Previous")
            afterNext == NextPage(p, o.count, button = "Next")
        IN  /\ page' =
                   CASE button = "Reset" ->
                            [page EXCEPT !.page = 1, !.button = button,
                                         !.rendered = {"Reset"}, !.rerun = TRUE]
                     [] o.kind = "raised" ->
                            [page EXCEPT !.params = params, !.fetched = o,
                                         !.button = button, !.rendered = {"Reset"},
                                         !.rerun = FALSE]
                     [] afterPrev # p ->
                            [page EXCEPT !.page = afterPrev, !.params = params,
                                         !.fetched = o, !.button = button,
                                         !.rendered = {"Reset", "Previous"},
                                         !.rerun = TRUE]
                     [] OTHER ->
                            [page EXCEPT !.page = afterNext, !.params = params,
                                         !.fetched = o, !.button = button,
                                         !.rendered =
                                             {"Reset", "Previous"} \cup
                                             (IF NextShown(p, o.count) THEN {"Next"} ELSE {}),
                                         !.rerun = afterNext # p]
            /\ UNCHANGED <<pop, ach, chat, favorites, bm, clientVars>>

\* The first load of the page, a change of the search text, or the rerun a
\* handler asked for.
Load == RunBrowse("-")

Reset == ~page.rerun /\ "Reset" \in page.rendered /\ RunBrowse("Reset")

Previous == ~page.rerun /\ "Previous" \in page.rendered /\ RunBrowse("Previous")

NextClick ==
    /\ ~page.rerun /\ "Next" \in page.rendered
    /\ page.page < MaxPage
    /\ RunBrowse("Next")

InitBrowse ==
    /\ InitClient({1}, {MaxRetriesDefault}, {WellFormedEnv})
    /\ client.built /\ selfHashable
    /\ pop = NoPopular /\ ach = NoAchievements /\ chat = NoChat
    /\ page = NoBrowse /\ favorites = NoFavorites

NextBrowse == Load \/ Reset \/ Previous \/ NextClick

SpecBrowse == InitBrowse /\ [][NextBrowse]_vars

----------------------------------------------------------------------------
\* Favorites (helpers.py 314-341).  The list lives in the session state.

FavoriteIds == {1, 2, 3}

\* game_data as the pages pass it; get('name', 'Unknown') fills a missing name.
NoName == "-"
GameData == [name : {"Hades", NoName}]

Favorite(game_id, game_data) ==
    [id |-> game_id,
     name |-> IF game_data.name = NoName THEN "Unknown" ELSE game_data.name]

Ids(favs) == {favs[i].id : i \in 1..Len(favs)}

\* The slip: the entry appended without the membership test.
add_to_favorites_always(favs, game_id, game_data) ==
    Append(favs, Favorite(game_id, game_data))

add_to_favorites(favs, game_id, game_data) ==
    IF game_id \notin Ids(favs)
    THEN Append(favs, Favorite(game_id, game_data))
    ELSE favs

Keeps(fav, game_id) == fav.id # game_id

remove_from_favorites(favs, game_id) ==
    SelectSeq(favs, LAMBDA fav : Keeps(fav, game_id))

is_favorite(favs, game_id) == game_id \in Ids(favs)

AddToFavorites ==
    \E game_id \in FavoriteIds, game_data \in GameData :
        /\ favorites' =
               [list |-> add_to_favorites(favorites.list, game_id, game_data),
                call |-> [op |-> "add_to_favorites", game_id |-> game_id,
                          result |-> game_id \notin Ids(favorites.list)],
                live |-> favorites.live \cup {game_id}]
        /\ UNCHANGED <<pop, ach, chat, page, bm, clientVars>>

RemoveFromFavorites ==
    \E game_id \in FavoriteIds :
        /\ favorites' =
               [list |-> remove_from_favorites(favorites.list, game_id),
                call |-> [op |-> "remove_from_favorites", game_id |-> game_id,
                          result |-> TRUE],
                live |-> favorites.live \ {game_id}]
        /\ UNCHANGED <<pop, ach, chat, page, bm, clientVars>>

IsFavorite ==
    \E game_id \in FavoriteIds :
        /\ favorites' =
               [favorites EXCEPT
                   !.call = [op |-> "is_favorite", game_id |-> game_id,
                             result |-> is_favorite(favorites.list, game_id)]]
        /\ UNCHANGED <<pop, ach, chat, page, bm, clientVars>>

InitFavorites ==
    /\ InitClient({1}, {MaxRetriesDefault}, {WellFormedEnv})
    /\ client.built /\ selfHashable
    /\ pop = NoPopular /\ ach = NoAchievements /\ chat = NoChat
    /\ page = NoBrowse /\ favorites = NoFavorites

NextFavorites == AddToFavorites \/ RemoveFromFavorites \/ IsFavorite

SpecFavorites == InitFavorites /\ [][NextFavorites]_vars

\* One thread, and a remote side that may answer 200 with a malformed body.
\* As in the shared runs, config.max_retries is set to a smaller budget.
MalformedRetries == {2}

InitMalformed == InitEnv({1}, MalformedRetries, MalformedEnvs)

SpecMalformed == InitMalformed /\ [][Next]_vars

\* One thread, with config.max_retries set to 0 or to a small budget.
RetryBudgets == {0, 2}

InitBudgets == InitWith({1}, RetryBudgets)

SpecBudgets == InitBudgets /\ [][Next]_vars

----------------------------------------------------------------------------
\* Properties

ApiErrors == {"RAWGAPIError", "RateLimitError"}

Ended(t) == th[t].pc = "idle" /\ th[t].result.kind # "none"

\* C1: when every attempt of _make_request fails with a throttled (429) or
\* transport (timeout, connection error) failure, max_retries network calls are
\* made with max_retries - 1 sleeps between them and only then is the error
\* raised; the k-th sleep (k = 0, 1, ...) lasts retry_delay * 2^k; a call that
\* returns a response's result has slept once per earlier failure and does
\* nothing after it.
C1_BackoffSchedule ==
    \A t \in active :
        LET r == th[t]
        IN  /\ \A k \in 1..Len(r.sleeps) : r.sleeps[k] = RetryDelay * Pow2(k - 1)
            /\ (/\ r.result.kind = "raised"
                /\ r.result.exc \in ApiErrors
                /\ r.failures \subseteq {"throttled", "transport"})
               => (r.netCalls = max_retries /\ Len(r.sleeps) = max_retries - 1)
            /\ (r.result.kind = "returned" /\ r.netCalls > 0)
               => (r.pc = "idle" /\ Len(r.sleeps) = r.netCalls - 1)

\* C1 witness: a call whose three attempts were throttled or hit transport
\* errors has raised after sleeping 1 s and 2 s.
C1_Witness ==
    \E t \in active :
        /\ th[t].result.kind = "raised"
        /\ th[t].failures = {"throttled", "transport"}
        /\ th[t].netCalls = MaxRetriesDefault
        /\ th[t].sleeps = <<RetryDelay, 2 * RetryDelay>>

\* C2: once the attempts are used up, the call raises the failure of the last
\* attempt: RateLimitError after a last 429, RAWGAPIError with the transport
\* error's text after a last timeout or connection error; it never returns a
\* result instead.
C2_LastFailureRaised ==
    \A t \in active :
        LET r == th[t]
        IN  (r.pc = "idle" /\ r.netCalls = max_retries /\ r.netCalls > 0) =>
              /\ (r.outcome.kind = "response" /\ r.outcome.status = 429) =>
                    (r.result.kind = "raised" /\ r.result.exc = "RateLimitError")
              /\ r.outcome.kind = "timeout" =>
                    r.result = Raised("RAWGAPIError", <<"Request timeout">>)
              /\ r.outcome.kind = "connection_error" =>
                    r.result = Raised("RAWGAPIError", <<"Connection error">>)

\* C2 witness: the last of three attempts was answered 429 after an earlier
\* transport error, and the call has ended.
C2_Witness ==
    \E t \in active :
        /\ Ended(t)
        /\ th[t].netCalls = MaxRetriesDefault
        /\ th[t].outcome.status = 429
        /\ "transport" \in th[t].failures

\* C3: an attempt answered 404 ends the call at once with the empty result {}:
\* nothing is raised, no sleep and no attempt follows, and a call whose first
\* response is the 404 has made one network call.
C3_NotFoundIsEmpty ==
    \A t \in active :
        LET r == th[t]
        IN  (r.outcome.kind = "response" /\ r.outcome.status = 404) =>
              /\ r.pc = "idle"
              /\ r.result = Returned("{}")
              /\ Len(r.sleeps) = r.netCalls - 1
              /\ (r.failures = {} => (r.netCalls = 1 /\ r.sleeps = <<>>))

\* C3 witness: a facade call answered 404 on its first attempt has ended.
C3_Witness ==
    \E t \in active :
        /\ Ended(t)
        /\ IsFacade(th[t].op)
        /\ th[t].outcome.status = 404
        /\ th[t].netCalls = 1

\* C4: an attempt answered with a status that is neither 2xx, 404 nor 429 (500)
\* is not retried: the call ends there with the error raised, no sleep follows.
C4_OtherStatusNotRetried ==
    \A t \in active :
        LET r == th[t]
        IN  (/\ r.outcome.kind = "response"
             /\ r.outcome.status = 500
             /\ r.pc \notin {"attempt", "rl_sleep", "inflight"})
            => (r.pc = "idle" /\ r.result.kind = "raised"
                /\ Len(r.sleeps) = r.netCalls - 1)

\* C5: with a single caller, two consecutive network calls start at least
\* min_request_interval apart, whatever the first one ended in.
C5_MinSpacing ==
    Cardinality(active) = 1 => (lastGap = -1 \/ lastGap >= MinRequestInterval)

\* C6: with two threads on one client, the network calls of two threads are
\* never in flight together having started less than min_request_interval apart.
C6_SharedSpacing ==
    \A t, u \in active :
        (t # u /\ th[t].pc = "inflight" /\ th[u].pc = "inflight")
            => lastGap >= MinRequestInterval

\* What the store holds, whatever the age of the entries
Stored(entries) == {<<e.key.fn, e.key.arg, e.value>> : e \in entries}

\* C7: a facade call made while the store holds a value that an earlier call of
\* the same operation with the same parameters put there less than cache_ttl
\* ago is answered with that value and makes no network call.
C7_RepeatAnsweredFromCache ==
    \A t \in active :
        LET r == th[t]
        IN  \A e \in r.cache0 :
                (/\ IsFacade(r.op)
                 /\ e.key.fn = r.op
                 /\ e.key.arg = r.arg
                 /\ 0 - e.at < CacheTtl)
                => (r.pc = "idle" /\ r.netCalls = 0 /\ r.result = Returned(e.value))

\* C8: a facade call that ended in an API error (throttling, transport or other
\* status, after its retries) left the store holding what it held when the call
\* started, and nothing in the store answers a repeat of the call.
C8_FailuresNotCached ==
    \A t \in active :
        LET r == th[t]
        IN  (/\ IsFacade(r.op)
             /\ r.pc = "idle"
             /\ r.result.kind = "raised"
             /\ r.result.exc \in ApiErrors)
            => (/\ Stored(cache) = Stored(r.cache0)
                /\ CacheHits(cache, CacheKey(r.op, r.arg)) = {})

\* C8 witness: a facade call that started with a value in the store has used up
\* its attempts and raised RateLimitError.
C8_Witness ==
    \E t \in active :
        /\ IsFacade(th[t].op)
        /\ Ended(t)
        /\ th[t].result.exc = "RateLimitError"
        /\ th[t].netCalls = MaxRetriesDefault
        /\ th[t].cache0 # {}

\* C9: every request handed to session.get carries exactly one `key` parameter
\* and its value is the client's api_key, which is not empty; this holds on the
\* first attempt and on retries, also when the caller passed a `key` of its own.
C9_KeyInjected ==
    \A t \in active :
        th[t].netCalls > 0 =>
            /\ <<"key", api_key>> \in th[t].request.params
            /\ \A p \in th[t].request.params : p[1] = "key" => p[2] = api_key
            /\ api_key # ""

\* C9 witness: a retry of a call whose caller passed its own `key` is in flight.
C9_Witness ==
    \E t \in active :
        /\ th[t].pc = "inflight"
        /\ th[t].attempt > 0
        /\ <<"key", "caller">> \in th[t].arg

Mentions(msg, text) == \E i \in 1..Len(msg) : msg[i] = text

\* C10: no record logged and no message of an exception raised by _make_request
\* contains the api_key (so the messages of two runs that differ only in the
\* key are the same).
C10_KeyNotInMessages ==
    \A t \in active :
        /\ \A m \in th[t].logged : ~Mentions(m, api_key)
        /\ ~Mentions(th[t].result.msg, api_key)

\* C11: every attempt of _make_request that has made its network call ends in
\* exactly one of four ways: the parsed body is returned (200), the empty result
\* {} is returned (404), RateLimitError is raised (429), RAWGAPIError is raised
\* (timeout, connection error, any other status); nothing else is ever returned.
C11_AttemptOutcomes ==
    \A t \in active :
        (Ended(t) /\ th[t].netCalls > 0) =>
            LET o == th[t].outcome
                r == th[t].result
            IN  \/ o.kind = "response" /\ o.status = 200 /\ r = Returned(o.body)
                \/ o.kind = "response" /\ o.status = 404 /\ r = Returned("{}")
                \/ o.kind = "response" /\ o.status = 429
                      /\ r.kind = "raised" /\ r.exc = "RateLimitError"
                \/ (o.kind # "response" \/ o.status \notin {200, 404, 429})
                      /\ r.kind = "raised" /\ r.exc = "RAWGAPIError"

\* The exception classes the executor raises for the failures of one class
KindsRaisedFor(class) ==
    {ExecutorResult(o, <<>>, {}).exc :
        o \in {x \in FastOutcomes \cup {TimeoutOutcome} :
                  FailureClass(x) = class /\ ExecutorResult(x, <<>>, {}).kind = "raised"}}

FailedAttempt(t) ==
    Ended(t) /\ th[t].netCalls > 0 /\ th[t].result.kind = "raised"

C13_OtherExceptionPropagates ==
    \A t \in active :
        (th[t].outcome.body = "not-json" /\ env.jsonError = "ValueError") =>
            /\ th[t].pc = "idle"
            /\ th[t].result = Raised("ValueError", ParseJson("not-json").msg)
            /\ th[t].netCalls = th[t].attempt + 1
            /\ Len(th[t].sleeps) = th[t].attempt
            /\ th[t].logged = {}

\* C13 witness: an attempt that still had a retry left (a RAWGAPIError there
\* would have been followed by a sleep) raised ValueError and the call ended.
C13_Witness ==
    \E t \in active :
        /\ Ended(t)
        /\ th[t].result.exc = "ValueError"
        /\ SleepsAfter(th[t].attempt, max_retries)
        /\ th[t].netCalls = 1

\* What a caller reads as an empty result: {} or a body without `results`
EmptyResults == {"{}", "no-results"}

\* C14: a facade call whose request was answered 200 with a malformed body (no
\* JSON, or JSON without `results`) ends returning an empty result and raises
\* no exception.
C14_MalformedIsEmpty ==
    \A t \in active :
        (/\ Ended(t)
         /\ IsFacade(th[t].op)
         /\ th[t].outcome.kind = "response"
         /\ th[t].outcome.status = 200
         /\ th[t].outcome.body \in MalformedBodies) =>
            /\ th[t].result.kind = "returned"
            /\ th[t].result.value \in EmptyResults

\* A facade call that st.cache_data could key and did not answer from its store
CacheMiss(t) ==
    /\ IsFacade(th[t].op)
    /\ th[t].op = "get_games" \/ selfHashable
    /\ CacheHits(th[t].cache0, CacheKey(th[t].op, th[t].arg)) = {}

\* C15: a facade call on a constructed client that missed the cache has, when
\* it ends, requested exactly the path of its own API_ENDPOINTS template (the
\* id substituted), passed the caller's filters as query parameters, and
\* returned or raised what the executor's last attempt returned or raised.
C15_FacadeRouting ==
    \A t \in active :
        (Ended(t) /\ CacheMiss(t)) =>
            /\ th[t].netCalls >= 1
            /\ Tail(th[t].request.url) = EndpointOf(th[t].op, th[t].arg).path
            /\ ParamsOf(th[t].op, th[t].arg) \subseteq th[t].request.params
            /\ th[t].result = ExecutorResult(th[t].outcome, th[t].request.url,
                                             th[t].request.params)

\* The entries a step adds to the store (an entry written again in the same
\* instant with the same value is not new)
NewEntries ==
    {e \in cache' : /\ e.at = 0
                    /\ ~\E f \in cache : /\ f.at = 0 /\ f.value = e.value
                                         /\ f.key.fn = e.key.fn /\ f.key.arg = e.key.arg}

\* C16: the layers of a facade call run in the order cache, retry, rate limiter,
\* executor.  A call the cache layer ends (a hit, or an argument it cannot
\* hash) has made no network call and slept for no retry; every network call,
\* first attempt or retry, is started by the attempt whose rate-limit wait has
\* just been served (the minimum interval has passed since last_request_time);
\* and an entry is stored only in the step in which an attempt of a call of
\* that method returned, the entry holding the returned value.
C16_LayerOrder ==
    [][ /\ \A t \in active :
             (/\ Ended(t)' /\ IsFacade(th'[t].op)
              /\ \/ th'[t].result.exc = "UnhashableParamError"
                 \/ /\ th'[t].op = "get_games" \/ selfHashable
                    /\ CacheHits(th'[t].cache0, CacheKey(th'[t].op, th'[t].arg)) # {}) =>
                 th'[t].netCalls = 0 /\ th'[t].sleeps = <<>>
        /\ \A t \in active :
             th'[t].netCalls = th[t].netCalls + 1 =>
                 /\ th[t].pc \in {"attempt", "rl_sleep"}
                 /\ th[t].pc = "rl_sleep" => th[t].until <= 0
                 /\ 0 - last_request_time >= MinRequestInterval
                 /\ th[t].netCalls = th[t].attempt
        /\ \A e \in NewEntries :
             \E t \in active :
                 /\ th[t].pc = "inflight" /\ th'[t].pc = "idle"
                 /\ th'[t].op = e.key.fn /\ th'[t].arg = e.key.arg
                 /\ th'[t].result = Returned(e.value)
                 /\ th'[t].outcome.kind = "response"
      ]_vars

\* C16 witness: a facade call that missed the cache has ended returning on a
\* retry, one network call per attempt, and its value has just been stored.
C16_Witness ==
    \E t \in active :
        /\ Ended(t) /\ CacheMiss(t)
        /\ th[t].attempt >= 1
        /\ th[t].netCalls = th[t].attempt + 1
        /\ \E e \in cache : /\ e.at = 0 /\ e.key.fn = th[t].op
                            /\ e.value = th[t].result.value

\* C17: every call of _make_request terminates.  A call that has started ends
\* (returns or raises); it makes at most max_retries network calls and sleeps
\* at most max_retries - 1 times between them, each sleep bounded by the
\* longest backoff; a rate-limit wait lasts at most the minimum interval and a
\* network call at most config.api_timeout.
C17_Terminates ==
    /\ \A t \in Threads : (th[t].pc # "idle") ~> (th[t].pc = "idle")
    /\ [](\A t \in active :
            /\ th[t].netCalls <= max_retries
            /\ Len(th[t].sleeps) <= max_retries - 1
            /\ \A i \in 1..Len(th[t].sleeps) :
                   th[t].sleeps[i] <= BackoffDelay(RetryDelay, max_retries - 2)
            /\ th[t].pc = "rl_sleep" => th[t].until <= MinRequestInterval
            /\ th[t].pc = "inflight" => th[t].until <= ApiTimeout
            /\ th[t].pc = "backoff" => th[t].until <= BackoffDelay(RetryDelay, max_retries - 2))

\* C17 witness: a call has ended after the longest run there is: every one of
\* its max_retries network calls ran into the timeout.
C17_Witness ==
    \E t \in active :
        /\ Ended(t)
        /\ th[t].netCalls = max_retries
        /\ Len(th[t].sleeps) = max_retries - 1
        /\ th[t].failures = {"transport"}
        /\ th[t].outcome.kind = "timeout"
        /\ th[t].result.kind = "raised"

\* C18: a client constructed with an API key only (base_url and user_agent
\* omitted, as app.py and the pages do) is constructed without error and uses
\* the base URL and the user agent of the configuration object.
C18_DefaultsFromConfig ==
    (client.args.base_url = <<>> /\ client.args.user_agent = <<>>) =>
        /\ client.built
        /\ client.base_url = ConfigValue("base_url")
        /\ client.user_agent = ConfigValue("user_agent")

\* get_games(search=query, **kwargs) called directly
DirectGetGames(entries, query, kwargs) ==
    LET bound == KwCall({<<"search", query>>}, kwargs)
    IN  IF bound.kind = "raised" THEN bound ELSE get_games(entries, bound.value)

\* C19 (as claimed): for every query and every set of extra filters,
\* search_games(query, **kwargs) ends as get_games(search=query, **kwargs)
\* called in its place would: the same value returned or the same error raised.
C19_SearchIsGetGames ==
    \A t \in active :
        (Ended(t) /\ th[t].op = "search_games") =>
            th[t].result = DirectGetGames(th[t].cache0, QueryOf(th[t].arg),
                                          KwargsOf(th[t].arg))

\* C19 (amended): the equivalence holds for extra filters that do not name
\* `search` themselves: then search_games hands get_games exactly the keyword
\* arguments search=query plus the filters, and ends as that call ends.
C19_SearchIsGetGamesNoClash ==
    \A t \in active :
        (/\ Ended(t) /\ th[t].op = "search_games"
         /\ ~\E p \in KwargsOf(th[t].arg) : p[1] = "search") =>
            /\ Returned(th[t].params) = KwCall({<<"search", QueryOf(th[t].arg)>>},
                                               KwargsOf(th[t].arg))
            /\ th[t].key = CacheKey("get_games", th[t].params)
            /\ th[t].result = DirectGetGames(th[t].cache0, QueryOf(th[t].arg),
                                             KwargsOf(th[t].arg))

\* C19 witness: search_games called with a query and an extra filter has ended.
C19_Witness ==
    \E t \in active :
        /\ Ended(t) /\ th[t].op = "search_games"
        /\ KwargsOf(th[t].arg) = {<<"page", "1">>}
        /\ <<"search", QueryOf(th[t].arg)>> \in th[t].params

ExactPositions(query, cands) ==
    {i \in 1..Len(cands) : Lower(cands[i].name) = Lower(query)}

ClosePositions(cands) ==
    {i \in 1..Len(cands) : cands[i].ratio > SimilarityCutoff}

\* C20: the best-match lookup chooses in strict priority: the first candidate
\* whose name equals the query case-insensitively; else a closest candidate,
\* when its similarity is above the cutoff (no candidate is closer than the one
\* chosen); else the first candidate.  It reports no match exactly when the
\* candidate list is empty.
C20_BestMatchPriority ==
    bm.query # "-" =>
        LET c == bm.candidates
            r == bm.result
            exact == ExactPositions(bm.query, c)
            close == ClosePositions(c)
        IN  /\ (r = <<>>) <=> (c = <<>>)
            /\ Len(r) <= 1
            /\ exact # {} => r = <<c[Min(exact)]>>
            /\ (exact = {} /\ close # {}) =>
                  /\ \E i \in close : r = <<c[i]>>
                  /\ \A i \in 1..Len(c) : c[i].ratio <= r[1].ratio
            /\ (exact = {} /\ close = {} /\ c # <<>>) => r = <<c[1]>>

\* C20 witness: the exact name is second in the list and a closer-scoring game
\* is first; the lookup chose the exact one.
C20_Witness ==
    /\ bm.query = "portal 2"
    /\ Len(bm.candidates) = 2
    /\ bm.candidates[1] = [name |-> "Halo Infinite", ratio |-> 80]
    /\ bm.candidates[2].name = "PORTAL 2"
    /\ bm.result = <<bm.candidates[2]>>

\* C21: the date range of get_popular_games depends on nothing but what the
\* caller passes (a "now" the caller could fix, the time_period): two calls
\* with the same time_period compute the same dates string.
C21_SameArgumentsSameDates ==
    \A i, j \in 1..Len(pop.calls) :
        pop.calls[i].time_period = pop.calls[j].time_period =>
            pop.calls[i].dates = pop.calls[j].dates

\* Days from 0001-01-01 to the date, counted without stepping through days
DaysBeforeYear(y) ==
    365 * (y - 1) + ((y - 1) \div 4) - ((y - 1) \div 100) + ((y - 1) \div 400)

RECURSIVE DaysBeforeMonth(_, _)
DaysBeforeMonth(y, m) ==
    IF m = 1 THEN 0 ELSE DaysBeforeMonth(y, m - 1) + DaysInMonth(y, m - 1)

Ordinal(date) == DaysBeforeYear(date[1]) + DaysBeforeMonth(date[1], date[2]) + date[3]

\* The calendar dates of the year of a date and of the year before it
DatesUpTo(date) ==
    {<<y, m, d>> \in ((date[1] - 1)..date[1]) \X (1..12) \X (1..31) :
        d <= DaysInMonth(y, m)}

\* The date that lies n days before a date, found by its day count
DaysBefore(date, n) ==
    CHOOSE s \in DatesUpTo(date) : Ordinal(date) - Ordinal(s) = n

HasEntry(params, name) == \E p \in params : p[1] = name
EntryOf(params, name) == (CHOOSE p \in params : p[1] = name)[2]

\* C25: get_popular_games(time_period, **kwargs) calls the games list with
\* dates = '<start>,<end>', each as YYYY-MM-DD, where end is the current date
\* and start lies 7 days before it for 'week', 30 for 'month', 365 for 'year'
\* and 7 for any other time_period (so never after end), and with ordering
\* '-rating'; a `dates` or `ordering` entry of the caller's kwargs replaces the
\* computed one, and the other entries of kwargs are passed along.
C25_PopularDates ==
    \A i \in 1..Len(pop.calls) :
        LET c == pop.calls[i]
            n == IF c.time_period = "month" THEN 30
                 ELSE IF c.time_period = "year" THEN 365 ELSE 7
        IN  /\ c.dates = Strftime(DaysBefore(c.now, n)) \o "," \o Strftime(c.now)
            /\ Len(c.dates) = 21
            /\ Ordinal(c.start_date) <= Ordinal(c.now)
            /\ c.kwargs \subseteq c.params
            /\ \A name \in {"dates", "ordering"} :
                 /\ HasEntry(c.params, name)
                 /\ \A p, q \in c.params : p[1] = q[1] => p = q
            /\ ~HasEntry(c.kwargs, "dates") => EntryOf(c.params, "dates") = c.dates
            /\ ~HasEntry(c.kwargs, "ordering") => EntryOf(c.params, "ordering") = "-rating"
            /\ c.result = get_games(cache, c.params)

\* C25 witness: a 'year' call made on 2024-03-01 reaches back over the leap
\* day to 2023-03-02, and the caller's own ordering has replaced '-rating'.
C25_Witness ==
    \E i \in 1..Len(pop.calls) :
        LET c == pop.calls[i]
        IN  /\ c.time_period = "year"
            /\ c.now = <<2024, 3, 1>>
            /\ c.dates = "2023-03-02,2024-03-01"
            /\ <<"ordering", "-added">> \in c.kwargs
            /\ EntryOf(c.params, "ordering") = "-added"
            /\ EntryOf(c.params, "dates") = c.dates

\* C22: the normalization never raises; a percent that is missing,
\* None or a non-numeric string becomes None, a number or a numeric string
\* becomes a float.
C22_NeverRaises ==
    /\ ach.raised = "-"
    /\ \A i \in 1..Len(ach.raw) :
         LET x == ach.raw[i]
         IN  /\ (x.type \in {"missing", "null"} \/ (x.type = "str" /\ x.text \in {"abc", ""}))
                   => ach.out[i] = NoneValue
             /\ (x.type \in {"int", "float", "bigint"}
                   \/ (x.type = "str" /\ x.text \in {"12.5", " 7 "}))
                   => ach.out[i].type = "float"

\* C23: without a Groq key, or when building the model or the chain failed,
\* is_available() is false and each of the four methods returns the fixed
\* ERROR_MESSAGES['ai_not_available'], without invoking the model and without
\* raising.
C23_FailsClosed ==
    (chat.groq_api_key = "" \/ ~chat.llm \/ ~chat.chain) =>
        /\ ~is_available(Manager)
        /\ chat.last.method # "-" =>
               /\ chat.last.result = ERROR_MESSAGES.ai_not_available
               /\ ~chat.last.invoked
               /\ chat.last.raised = "-"

C23_Witness ==
    /\ chat.groq_api_key # "" /\ ~chat.chain
    /\ chat.last.method = "analyze_trends"
    /\ chat.last.result = ERROR_MESSAGES.ai_not_available

PairShape(h) ==
    /\ Len(h) % 2 = 0
    /\ \A i \in 1..Len(h) : h[i].role = IF i % 2 = 1 THEN "user" ELSE "assistant"

AssistantTexts ==
    ModelReplies \cup {Apology("get_response", e) : e \in ModelErrors}

\* C28: the chat history is always a sequence of (user, assistant) pairs; a
\* Send with a non-empty input appends exactly the user's message and then
\* one assistant message (the error text when the model call failed), a Send
\* with an empty input changes nothing, and Clear Chat empties the history.
C28_HistoryPairs ==
    [][LET h == chat.history
           g == chat'.history
           n == Len(chat.history)
       IN  /\ PairShape(g)
           /\ chat'.last = chat.last =>
                  /\ (chat'.ui.button = "Send" /\ chat'.ui.rendered
                      /\ chat'.ui.user_input # "") =>
                         /\ Len(g) = n + 2
                         /\ SubSeq(g, 1, n) = h
                         /\ g[n + 1] = Message("user", chat'.ui.user_input)
                         /\ g[n + 2].role = "assistant"
                         /\ g[n + 2].content \in AssistantTexts
                  /\ (chat'.ui.button = "Send" /\ chat'.ui.user_input = "") => g = h
                  /\ (chat'.ui.button = "Clear Chat" /\ chat'.ui.rendered) => g = <<>>
                  /\ ~chat'.ui.rendered => g = h]_vars

C28_Witness ==
    /\ Len(chat.history) = 4
    /\ chat.history[2].content = Apology("get_response", "Connection error.")
    /\ chat.history[4].content \in ModelReplies
    /\ chat.ui.button = "Send"

\* C24: the URL a request goes to is the client's base URL followed by the
\* endpoint's path, the path prefix of the base URL kept:
\* 'https://api.rawg.io/api' and '/games' give 'https://api.rawg.io/api/games'.
C24_UrlKeepsPrefix ==
    \A t \in Threads :
        th[t].request # NoRequest =>
            th[t].request.url = client.base_url \o EndpointOf(th[t].op, th[t].arg).path

\* C26: in the Browse Games page the session page number is at least 1 after
\* any sequence of Previous, Next and Reset: Previous decrements it only when
\* it is greater than 1, Next increments it only when the results just fetched
\* have total_results > page * page_size, Reset sets it to 1; every games
\* request carries the page (>= 1) and page_size = config.default_page_size,
\* which is at most config.max_page_size.
C26_PageAtLeastOne ==
    [][/\ page.page >= 1 /\ page'.page >= 1
       /\ page'.page < page.page =>
              \/ page'.button = "Previous" /\ page.page > 1
                 /\ page'.page = page.page - 1
              \/ page'.button = "Reset" /\ page'.page = 1
       /\ page'.page > page.page =>
              /\ page'.button = "Next" /\ page'.page = page.page + 1
              /\ page'.fetched.kind = "data"
              /\ page'.fetched.count > page.page * DefaultPageSize
       /\ page'.button = "Reset" => page'.page = 1
       /\ page'.button # "Reset" =>
              /\ <<"page", page.page>> \in page'.params
              /\ <<"page_size", DefaultPageSize>> \in page'.params
       /\ \A e \in page'.params :
              /\ e[1] = "page" => e[2] >= 1
              /\ e[1] = "page_size" => e[2] = DefaultPageSize /\ e[2] <= MaxPageSize]_vars

C26_Witness ==
    /\ page.page = 2 /\ page.button = "Previous"
    /\ page.fetched.kind = "data" /\ page.rerun
    /\ <<"page", 3>> \in page.params

Occurrences(favs, game_id) == Cardinality({i \in 1..Len(favs) : favs[i].id = game_id})

\* C27: the favorites list never holds two entries with the same id; adding an
\* id already present leaves the list unchanged, removing an id removes every
\* entry with that id and no other, and is_favorite(id) is true exactly when
\* the id was added and not removed since.
C27_FavoritesUnique ==
    [][LET old == favorites.list
           new == favorites'.list
           c == favorites'.call
       IN  /\ \A id \in FavoriteIds : Occurrences(new, id) <= 1
           /\ \A id \in FavoriteIds : is_favorite(new, id) <=> id \in favorites'.live
           /\ (c.op = "add_to_favorites" /\ Occurrences(old, c.game_id) > 0) => new = old
           /\ (c.op = "add_to_favorites" /\ Occurrences(old, c.game_id) = 0) =>
                  /\ Len(new) = Len(old) + 1
                  /\ SubSeq(new, 1, Len(old)) = old
                  /\ new[Len(new)].id = c.game_id
           /\ c.op = "remove_from_favorites" =>
                  /\ Occurrences(new, c.game_id) = 0
                  /\ Len(new) = Len(old) - Occurrences(old, c.game_id)
                  /\ \A i, j \in 1..Len(old) :
                         (i < j /\ old[i].id # c.game_id /\ old[j].id # c.game_id) =>
                             \E k, l \in 1..Len(new) :
                                 k < l /\ new[k] = old[i] /\ new[l] = old[j]
                  /\ \A i \in 1..Len(old) :
                         old[i].id # c.game_id => \E k \in 1..Len(new) : new[k] = old[i]
           /\ c.op = "is_favorite" =>
                  /\ new = old
                  /\ c.result <=> c.game_id \in favorites.live]_vars

C27_Witness ==
    /\ Len(favorites.list) = 2
    /\ favorites.call.op = "add_to_favorites" /\ ~favorites.call.result
    /\ 3 \notin favorites.live /\ ~is_favorite(favorites.list, 3)
    /\ favorites.list[1].id = 2 /\ favorites.list[2].id = 1

\* C29: the empty result of a 404 is cached like a success: a facade call made
\* while the store holds the {} that an earlier call of the same operation
\* with the same parameters put there less than cache_ttl ago makes no network
\* call and returns {}.
C29_EmptyResultCached ==
    \A t \in active :
        LET r == th[t]
        IN  \A e \in r.cache0 :
                (/\ IsFacade(r.op)
                 /\ e.key.fn = r.op
                 /\ e.key.arg = r.arg
                 /\ e.value = "{}"
                 /\ 0 - e.at < CacheTtl)
                => (/\ r.netCalls = 0
                    /\ r.pc = "idle"
                    /\ r.result = Returned("{}"))

\* C30: for every configured max_retries, 0 included, a call of the function
\* retry_on_failure wraps invokes the function at least once, and ends
\* returning the function's result or raising an exception the function raised.
C30_InvokedAtLeastOnce ==
    \A t \in active :
        (Ended(t) /\ th[t].op = "_make_request") =>
            /\ th[t].netCalls >= 1
            /\ \/ th[t].result.kind = "returned"
               \/ th[t].result.kind = "raised" /\ th[t].result.exc \in ApiErrors
====
